---- MODULE Spec2Model ----
(***************************************************************************)
(* Lead-to-buyer matching and assignment engine of easyexithub.            *)
(*                                                                         *)
(*   src/src/utils/buyerMatcher.ts   tier classifier, market matcher,      *)
(*                                   score calculator, ranker, statistics  *)
(*   src/unnamed/part_015            LeadsContext / LeadsContextV2:        *)
(*                                   updateLead, assignLeadToBuyer         *)
(*   src/src/App.tsx                 createDeal                            *)
(*   src/unnamed/part_008, part_009  importLeads, importFromCSV            *)
(*   src/src/services/csvImporter.ts convertToAppLead                      *)
(*   src/src/components/common/Logo.tsx  the matcher's test fixture        *)
(*   src/migrations/001_create_leads_table.sql  view available_matches     *)
(*                                                                         *)
(* Text is a sequence of one-character strings so that toLowerCase() and   *)
(* includes() are computed character by character.  A JavaScript value     *)
(* that is undefined is the constant undefined when it is passed as an     *)
(* argument, and a field missing from the record's DOMAIN when it is an    *)
(* optional property of an object.                                         *)
(***************************************************************************)
EXTENDS Integers, Sequences, FiniteSets, TLC

VARIABLES
    buyers,     \* LeadsProvider state `buyers`: the buyer collection
    call,       \* the operation applied last, with its arguments
    ret,        \* the value that operation returned
    dbLeads,    \* table `leads` of the store: lead id -> row
    leads,      \* LeadsProvider state `leads`: local copy of the rows
    calls,      \* assignLeadToBuyer calls in flight or finished
    now,        \* the clock read by new Date()
    provider,   \* the LeadsProvider mounted: LeadsContext or LeadsContextV2
    error,      \* LeadsProvider state `error`
    loading,    \* LeadsProvider state `loading`
    deals,      \* table `deals` of the store: the rows in insertion order
    dealCalls,  \* createDeal calls in flight or finished
    imports,    \* importLeads / importFromCSV runs in flight or finished
    importPage, \* ImportLeadsPage state: leads, importing, result, error
    dashboard   \* UnifiedDashboard state: leads, loading, importing; alerts

vars == <<buyers, call, ret, dbLeads, leads, calls, now, provider, error,
          loading, deals, dealCalls, imports, importPage, dashboard>>

matcherVars == <<buyers, call, ret>>
assignVars == <<dbLeads, leads, calls, now, provider, error, loading>>
dealVars == <<deals, dealCalls>>
importVars == <<imports, importPage, dashboard>>

-----------------------------------------------------------------------------
(* Bounds *)

MaxNoteFrags == 3       \* notes are built from at most this many fragments
MaxTargetFrags == 2     \* target_markets texts likewise
MaxBuyers == 3          \* size of the buyer collection
MaxLimit == 2           \* largest result-count limit requested
MaxReliability == 12    \* reliability scores run 0..MaxReliability
MaxCalls == 2           \* assignLeadToBuyer and createDeal calls per behaviour
NumLeads == 2           \* rows of table `leads`
NumBuyers == 2          \* buyer ids a caller may pass

-----------------------------------------------------------------------------
(* JavaScript strings *)

undefined == <<"undefined">>

Upper == <<"A","B","C","D","E","F","G","H","I","J","K","L","M",
           "N","O","P","Q","R","S","T","U","V","W","X","Y","Z">>
Lower == <<"a","b","c","d","e","f","g","h","i","j","k","l","m",
           "n","o","p","q","r","s","t","u","v","w","x","y","z">>

\* !s for a string or undefined: undefined and "" are falsy
Falsy(s) == s = undefined \/ s = <<>>

UpperSet == {Upper[i] : i \in 1..26}
UpperIndex == [c \in UpperSet |-> CHOOSE i \in 1..26 : Upper[i] = c]

\* the lower-case form of one character; only A-Z change
LowerChar(c) == IF c \in UpperSet THEN Lower[UpperIndex[c]] ELSE c

\* s.toLowerCase()
toLowerCase(s) == [i \in 1..Len(s) |-> LowerChar(s[i])]

\* s.includes(sub)
includes(s, sub) ==
    \E i \in 0..(Len(s) - Len(sub)) : SubSeq(s, i + 1, i + Len(sub)) = sub

\* the value of an optional string property
Prop(obj, f) == IF f \in DOMAIN obj THEN obj[f] ELSE undefined

RECURSIVE Concat(_)
Concat(ss) == IF ss = <<>> THEN <<>> ELSE Head(ss) \o Concat(Tail(ss))

\* all sequences over S of length 0..n
SeqsUpTo(S, n) == UNION {[1..k -> S] : k \in 0..n}

-----------------------------------------------------------------------------
(* Tier Classifier: buyerMatcher.getTierLevel, getTierLabel *)

TIER_1 == <<"t","i","e","r"," ","1">>
HOT == <<"h","o","t">>
TIER_2 == <<"t","i","e","r"," ","2">>
WARM == <<"w","a","r","m">>

\* (mutant: the tier-2 words are tested before the tier-1 words)
getTierLevel_Tier2First(notes) ==
    IF Falsy(notes) THEN 3
    ELSE LET lower == toLowerCase(notes) IN
         IF includes(lower, TIER_2) \/ includes(lower, WARM) THEN 2
         ELSE IF includes(lower, TIER_1) \/ includes(lower, HOT) THEN 1
         ELSE 3

getTierLevel(notes) ==
    IF Falsy(notes) THEN 3
    ELSE LET lower == toLowerCase(notes) IN
         IF includes(lower, TIER_1) \/ includes(lower, HOT) THEN 1
         ELSE IF includes(lower, TIER_2) \/ includes(lower, WARM) THEN 2
         ELSE 3

getTierLabel(notes) ==
    LET tier == getTierLevel(notes) IN
    CASE tier = 1 -> "Tier 1 HOT"
      [] tier = 2 -> "Tier 2 WARM"
      [] OTHER -> "Tier 3 ACTIVE"

\* notes a buyer can carry: undefined, or a text made of these fragments
NoteFrags ==
    { <<"T","i","e","r"," ","1">>, <<"t","i","e","r"," ","2">>,
      <<"T","I","E","R">>, <<" ","2">>, <<" ">>,
      <<"H","O","T">>, <<"H","o">>, <<"t">>,
      <<"W","A","R","M">>, <<"w","a">>, <<"r","m">>,
      <<"V","I","P">> }

NotesInputs ==
    {undefined} \cup {Concat(fs) : fs \in SeqsUpTo(NoteFrags, MaxNoteFrags)}

NoCall == [op |-> "none"]

InitMatcher == buyers = <<>> /\ call = NoCall /\ ret = <<>>

\* ImportLeadsPage as mounted: nothing loaded, no result, no error
NoImportPage ==
    [leads |-> <<>>, importing |-> FALSE, result |-> <<>>, error |-> <<>>]

\* UnifiedDashboard over an empty table, its first load finished
EmptyDashboard ==
    [leads |-> <<>>, loading |-> FALSE, importing |-> FALSE, alerts |-> <<>>]

\* the assignment state while only the matcher is exercised
InitAssign ==
    /\ dbLeads = <<>> /\ leads = <<>> /\ calls = <<>> /\ now = 0
    /\ provider = "LeadsContextV2" /\ error = "" /\ loading = FALSE
    /\ deals = <<>> /\ dealCalls = <<>>
    /\ imports = <<>> /\ importPage = NoImportPage
    /\ dashboard = EmptyDashboard

\* a caller holds some notes and has not yet classified them
InitTier ==
    /\ buyers = <<>> /\ ret = <<>>
    /\ \E notes \in NotesInputs : call = [op |-> "none", notes |-> notes]
    /\ InitAssign

CallGetTierLevel ==
    /\ call.op = "none"
    /\ call' = [call EXCEPT !.op = "getTierLevel"]
    /\ ret' = getTierLevel(call.notes)
    /\ UNCHANGED <<buyers, assignVars, dealVars, importVars>>

CallGetTierLabel ==
    /\ call.op = "none"
    /\ call' = [call EXCEPT !.op = "getTierLabel"]
    /\ ret' = getTierLabel(call.notes)
    /\ UNCHANGED <<buyers, assignVars, dealVars, importVars>>

NextTier == CallGetTierLevel \/ CallGetTierLabel

SpecTier == InitTier /\ [][NextTier]_vars

-----------------------------------------------------------------------------
(* Case-insensitive containment stated letter by letter, independently of  *)
(* toLowerCase and includes.                                               *)

Letters == {Upper[i] : i \in 1..26} \cup {Lower[i] : i \in 1..26}
LetterTable ==
    [c \in Letters |-> CHOOSE i \in 1..26 : Upper[i] = c \/ Lower[i] = c]

LetterNo(c) == IF c \in Letters THEN LetterTable[c] ELSE 0

SameLetter(c, d) == c = d \/ (LetterNo(c) > 0 /\ LetterNo(c) = LetterNo(d))

ContainsCI(s, w) ==
    \E i \in 0..(Len(s) - Len(w)) :
        \A j \in 1..Len(w) : SameLetter(s[i + j], w[j])

HasTier1Word(notes) == ContainsCI(notes, TIER_1) \/ ContainsCI(notes, HOT)
HasTier2Word(notes) == ContainsCI(notes, TIER_2) \/ ContainsCI(notes, WARM)

\* C6: the tier classifier is total and first-match, case-insensitively:
\* notes with "tier 1" or "hot" give 1 (also when "tier 2" or "warm" occurs
\* too), otherwise notes with "tier 2" or "warm" give 2, every other input,
\* absent and empty notes included, gives 3; the result is always in {1,2,3}.
C6_TierRule ==
    call.op = "getTierLevel" =>
        /\ ret \in {1, 2, 3}
        /\ IF call.notes = undefined \/ call.notes = <<>> THEN ret = 3
           ELSE IF HasTier1Word(call.notes) THEN ret = 1
           ELSE IF HasTier2Word(call.notes) THEN ret = 2
           ELSE ret = 3

\* a tier-1 word and a tier-2 word in the same notes, in mixed case
C6_Witness ==
    /\ call.op = "getTierLevel"
    /\ call.notes # undefined
    /\ HasTier1Word(call.notes) /\ HasTier2Word(call.notes)
    /\ toLowerCase(call.notes) # call.notes
    /\ ret = 1

-----------------------------------------------------------------------------
(* Market Matcher: buyerMatcher.servesMarket *)

MULTI == <<"m","u","l","t","i">>

\* (mutant: the texts are compared without toLowerCase)
servesMarket_CaseSensitive(buyer, marketName) ==
    IF Falsy(Prop(buyer, "target_markets")) \/ Falsy(marketName) THEN TRUE
    ELSE IF includes(buyer.target_markets, marketName) THEN TRUE
    ELSE IF includes(buyer.target_markets, MULTI) THEN TRUE
    ELSE FALSE

servesMarket(buyer, marketName) ==
    IF Falsy(Prop(buyer, "target_markets")) \/ Falsy(marketName) THEN TRUE
    ELSE LET targets == toLowerCase(buyer.target_markets)
             market == toLowerCase(marketName)
         IN  IF includes(targets, market) THEN TRUE
             ELSE IF includes(targets, MULTI) THEN TRUE
             ELSE FALSE

BIRMINGHAM_AL == <<"B","i","r","m","i","n","g","h","a","m",","," ","A","L">>
KANSAS_CITY_MO ==
    <<"K","a","n","s","a","s"," ","C","i","t","y",","," ","M","O">>
DENVER_CO == <<"D","e","n","v","e","r",","," ","C","O">>
MULTI_MARKET == <<"M","u","l","t","i","-","M","a","r","k","e","t">>

TargetFrags ==
    { BIRMINGHAM_AL, KANSAS_CITY_MO, MULTI_MARKET,
      <<"B","I","R","M","I","N","G","H","A","M">>, <<","," ","A","L">>,
      <<"M","U","L">>, <<"t","i">>, <<","," ">>,
      <<"D","e","n">>, <<"v","e","r">> }

TargetInputs ==
    {undefined} \cup {Concat(fs) : fs \in SeqsUpTo(TargetFrags, MaxTargetFrags)}

MarketInputs ==
    { undefined, <<>>, BIRMINGHAM_AL, KANSAS_CITY_MO, DENVER_CO,
      <<"b","i","r","m","i","n","g","h","a","m">>, <<"D","E","N","V","E","R">>,
      <<"A","L">>, <<"M","a","r","k","e","t">> }

\* a buyer object with the optional properties that are defined
Buyer(id, target, notes) ==
    [id |-> id]
    @@ (IF target = undefined THEN <<>> ELSE [target_markets |-> target])
    @@ (IF notes = undefined THEN <<>> ELSE [notes |-> notes])

InitMarket ==
    /\ buyers = <<>> /\ ret = <<>>
    /\ \E target \in TargetInputs, marketName \in MarketInputs :
          call = [op |-> "none", buyer |-> Buyer(1, target, undefined),
                  marketName |-> marketName]
    /\ InitAssign

CallServesMarket ==
    /\ call.op = "none"
    /\ call' = [call EXCEPT !.op = "servesMarket"]
    /\ ret' = servesMarket(call.buyer, call.marketName)
    /\ UNCHANGED <<buyers, assignVars, dealVars, importVars>>

NextMarket == CallServesMarket

SpecMarket == InitMarket /\ [][NextMarket]_vars

\* C7 as stated, "absent" read as undefined: true when either text is
\* absent, true when the target text holds the multi-market marker, and when
\* both are present true exactly if the market name or the marker occurs in
\* the target text (case-insensitively).
C7_AsStated ==
    call.op = "servesMarket" =>
        LET target == Prop(call.buyer, "target_markets")
            market == call.marketName
        IN  /\ (target = undefined \/ market = undefined) => ret = TRUE
            /\ (target # undefined /\ ContainsCI(target, MULTI)) => ret = TRUE
            /\ (target # undefined /\ market # undefined) =>
                  (ret = (ContainsCI(target, market) \/ ContainsCI(target, MULTI)))

\* C7 (amended): servesMarket is true when the target-markets text or the
\* market name is absent or empty, and when the target text holds the marker
\* "multi"; when both are non-empty it is true exactly if the lower-cased
\* market name or the marker is a substring of the lower-cased target text.
\* A lead whose market is unresolved matches every buyer.
C7_ServesMarket ==
    call.op = "servesMarket" =>
        LET target == Prop(call.buyer, "target_markets")
            market == call.marketName
            noTarget == target = undefined \/ target = <<>>
            noMarket == market = undefined \/ market = <<>>
        IN  /\ (noTarget \/ noMarket) => ret = TRUE
            /\ (~noTarget /\ ContainsCI(target, MULTI)) => ret = TRUE
            /\ (~noTarget /\ ~noMarket) =>
                  (ret = (ContainsCI(target, market) \/ ContainsCI(target, MULTI)))

\* an empty (but present) target text against a named market is accepted
C7_Witness ==
    /\ call.op = "servesMarket"
    /\ Prop(call.buyer, "target_markets") = <<>>
    /\ call.marketName = DENVER_CO
    /\ ret = TRUE

-----------------------------------------------------------------------------
(* Score Calculator: buyerMatcher.calculateScore *)

Min(a, b) == IF a <= b THEN a ELSE b

\* buyer.reliability_score && buyer.reliability_score > 0
HasReliability(buyer) ==
    "reliability_score" \in DOMAIN buyer /\ buyer.reliability_score > 0

\* (mutant: reliability earns its 20 points only above 8 out of 10)
uncappedScore_ReliabilityOver8(buyer, lead, marketName) ==
    LET tier == getTierLevel(Prop(buyer, "notes"))
        tierPoints == IF tier = 1 THEN 50 ELSE IF tier = 2 THEN 30 ELSE 10
        marketPoints == IF servesMarket(buyer, marketName) THEN 40 ELSE 0
        reliabilityPoints ==
            IF HasReliability(buyer) /\ buyer.reliability_score > 8
            THEN 20 ELSE 0
    IN  tierPoints + marketPoints + reliabilityPoints

\* the local `score` of calculateScore just before the final Math.min;
\* (reliability_score / 10) * 20 is exact for the integer scores modelled
uncappedScore(buyer, lead, marketName) ==
    LET tier == getTierLevel(Prop(buyer, "notes"))
        tierPoints == IF tier = 1 THEN 50 ELSE IF tier = 2 THEN 30 ELSE 10
        marketPoints == IF servesMarket(buyer, marketName) THEN 40 ELSE 0
        reliabilityPoints ==
            IF HasReliability(buyer)
            THEN Min(20, (buyer.reliability_score * 20) \div 10)
            ELSE 0
    IN  tierPoints + marketPoints + reliabilityPoints

\* (mutant: the final Math.min(100, score) is left out)
calculateScore_NoCap(buyer, lead, marketName) ==
    uncappedScore(buyer, lead, marketName)

calculateScore(buyer, lead, marketName) ==
    Min(100, uncappedScore(buyer, lead, marketName))

TIER_1_HOT == <<"T","i","e","r"," ","1"," ","H","O","T">>
TIER_2_WARM == <<"T","i","e","r"," ","2"," ","W","A","R","M">>
CASH_BUYER == <<"C","a","s","h"," ","b","u","y","e","r">>

ScoreNotes == {undefined, TIER_1_HOT, TIER_2_WARM, CASH_BUYER}
ScoreTargets == {undefined, BIRMINGHAM_AL, KANSAS_CITY_MO, MULTI_MARKET}
ScoreMarkets == {undefined, BIRMINGHAM_AL, DENVER_CO}

\* reliability_score is optional: r = -2 leaves the property out, r = -1 is
\* a non-positive number
WithReliability(buyer, r) ==
    IF r = -2 THEN buyer ELSE buyer @@ [reliability_score |-> r]

\* the lead argument; the score does not read it
Lead(id) == [id |-> id]

InitScore ==
    /\ buyers = <<>> /\ ret = <<>>
    /\ \E target \in ScoreTargets, notes \in ScoreNotes,
          r \in -2..MaxReliability, marketName \in ScoreMarkets :
          call = [op |-> "none",
                  buyer |-> WithReliability(Buyer(1, target, notes), r),
                  lead |-> Lead(1), marketName |-> marketName]
    /\ InitAssign

CallCalculateScore ==
    /\ call.op = "none"
    /\ call' = [call EXCEPT !.op = "calculateScore"]
    /\ ret' = calculateScore(call.buyer, call.lead, call.marketName)
    /\ UNCHANGED <<buyers, assignVars, dealVars, importVars>>

NextScore == CallCalculateScore

SpecScore == InitScore /\ [][NextScore]_vars

\* the tier, market and reliability terms as the documentation states them
DocTier(buyer) ==
    LET notes == Prop(buyer, "notes") IN
    IF notes = undefined \/ notes = <<>> THEN 3
    ELSE IF HasTier1Word(notes) THEN 1
    ELSE IF HasTier2Word(notes) THEN 2
    ELSE 3

DocMarketMatch(buyer, marketName) ==
    LET target == Prop(buyer, "target_markets") IN
    \/ target = undefined \/ target = <<>>
    \/ marketName = undefined \/ marketName = <<>>
    \/ ContainsCI(target, marketName)
    \/ ContainsCI(target, MULTI)

DocT(buyer) ==
    IF DocTier(buyer) = 1 THEN 50 ELSE IF DocTier(buyer) = 2 THEN 30 ELSE 10
DocM(buyer, marketName) == IF DocMarketMatch(buyer, marketName) THEN 40 ELSE 0
DocR(r) == IF r > 0 THEN Min(20, 2 * r) ELSE 0

IntegerReliability(buyer) ==
    "reliability_score" \in DOMAIN buyer /\ buyer.reliability_score \in 0..10

OnScale(buyer) ==
    "reliability_score" \in DOMAIN buyer => buyer.reliability_score \in 0..10

-----------------------------------------------------------------------------
(* Match Ranker: buyerMatcher.findMatches, getTopMatches, getMatchStats *)

\* (mutant: the comparator looks at the tier only)
compareMatches_TierOnly(a, b) == a.tier - b.tier

\* (mutant: the score is compared in ascending order)
compareMatches_ScoreAscending(a, b) ==
    IF a.tier # b.tier THEN a.tier - b.tier
    ELSE a.match_score - b.match_score

\* the comparator handed to sort(): tier ascending, then score descending
compareMatches(a, b) ==
    IF a.tier # b.tier THEN a.tier - b.tier
    ELSE b.match_score - a.match_score

\* (mutant: an unstable sort, x goes in front of the elements it ties with)
insertSorted_BeforeTies(sorted, x) ==
    LET before == {i \in 1..Len(sorted) : compareMatches(sorted[i], x) < 0}
        p == IF before = {} THEN 0
             ELSE CHOOSE i \in before : \A j \in before : j <= i
    IN  SubSeq(sorted, 1, p) \o <<x>> \o SubSeq(sorted, p + 1, Len(sorted))

\* one step of a stable sort: x goes behind the last element that the
\* comparator does not place after it
insertSorted(sorted, x) ==
    LET before == {i \in 1..Len(sorted) : compareMatches(sorted[i], x) <= 0}
        p == IF before = {} THEN 0
             ELSE CHOOSE i \in before : \A j \in before : j <= i
    IN  SubSeq(sorted, 1, p) \o <<x>> \o SubSeq(sorted, p + 1, Len(sorted))

\* Array.prototype.sort with compareMatches (stable since ES2019)
RECURSIVE sort(_)
sort(arr) ==
    IF arr = <<>> THEN <<>>
    ELSE insertSorted(sort(SubSeq(arr, 1, Len(arr) - 1)), arr[Len(arr)])

\* Array.prototype.slice(start, end) with its relative-index rules
slice(arr, start, end) ==
    LET len == Len(arr)
        k == IF start < 0 THEN (IF len + start < 0 THEN 0 ELSE len + start)
             ELSE Min(start, len)
        final == IF end < 0 THEN (IF len + end < 0 THEN 0 ELSE len + end)
                 ELSE Min(end, len)
    IN  SubSeq(arr, k + 1, final)

toMatchResult(buyer, lead, marketName) ==
    buyer @@ [match_score |-> calculateScore(buyer, lead, marketName),
              tier |-> getTierLevel(Prop(buyer, "notes")),
              tier_label |-> getTierLabel(Prop(buyer, "notes"))]

\* (mutant: the market filter is left out)
findMatches_NoFilter(lead, bs, marketName) ==
    sort([i \in 1..Len(bs) |-> toMatchResult(bs[i], lead, marketName)])

findMatches(lead, bs, marketName) ==
    LET eligible == SelectSeq(bs, LAMBDA b : servesMarket(b, marketName))
        mapped == [i \in 1..Len(eligible) |->
                      toMatchResult(eligible[i], lead, marketName)]
    IN  sort(mapped)

DefaultLimit == 5

\* (mutant: the limit is counted from 0 inclusive, one element too many)
getTopMatches_OneMore(lead, bs, marketName, limit) ==
    slice(findMatches(lead, bs, marketName), 0, limit + 1)

getTopMatches(lead, bs, marketName, limit) ==
    slice(findMatches(lead, bs, marketName), 0, limit)

CountTier(matches, t) == Len(SelectSeq(matches, LAMBDA m : m.tier = t))

\* (mutant: the top score falls back to 0 instead of staying undefined)
getMatchStats_ZeroTopScore(lead, bs, marketName) ==
    LET matches == findMatches(lead, bs, marketName) IN
    [total_matches |-> Len(matches),
     tier1_count |-> CountTier(matches, 1),
     tier2_count |-> CountTier(matches, 2),
     tier3_count |-> CountTier(matches, 3),
     top_match_score |-> IF matches = <<>> THEN 0 ELSE matches[1].match_score]
    @@ (IF matches = <<>> THEN <<>> ELSE [top_match |-> matches[1]])

\* top_match and top_match_score are undefined for an empty ranking
getMatchStats(lead, bs, marketName) ==
    LET matches == findMatches(lead, bs, marketName) IN
    [total_matches |-> Len(matches),
     tier1_count |-> CountTier(matches, 1),
     tier2_count |-> CountTier(matches, 2),
     tier3_count |-> CountTier(matches, 3)]
    @@ (IF matches = <<>> THEN <<>>
        ELSE [top_match |-> matches[1],
              top_match_score |-> matches[1].match_score])

\* lead.market?.name
marketNameOf(lead) ==
    IF "market" \in DOMAIN lead THEN lead.market.name ELSE undefined

\* rows of table `buyers`
RankTargets == {BIRMINGHAM_AL, KANSAS_CITY_MO}
RankNotes == {undefined, TIER_1_HOT, TIER_2_WARM}
RankReliability == {-2, 8}

BuyerRows ==
    {WithReliability(Buyer(0, t, n), r) :
        t \in RankTargets, n \in RankNotes, r \in RankReliability}

\* a result set of the select: ids are the primary key
BuyerTables ==
    {[i \in 1..Len(rows) |-> [rows[i] EXCEPT !.id = i]] :
        rows \in SeqsUpTo(BuyerRows, MaxBuyers)}

\* leads with their market relation loaded, and one whose market is unresolved
LeadInputs ==
    { [id |-> 1, market_id |-> 1, market |-> [id |-> 1, name |-> BIRMINGHAM_AL]],
      [id |-> 2, market_id |-> 3, market |-> [id |-> 3, name |-> DENVER_CO]],
      [id |-> 3, market_id |-> 9] }

LimitInputs == (0..MaxLimit) \cup {DefaultLimit}

\* LeadsContextV2.fetchBuyers on mount: setBuyers(data || [])
FetchBuyers ==
    /\ call.op = "none" /\ buyers = <<>>
    /\ buyers' \in BuyerTables \ {<<>>}
    /\ UNCHANGED <<call, ret, assignVars, dealVars, importVars>>

\* (mutant: the ranking is built in the caller's array, which ends up
\* filtered and reordered)
CallFindMatches_InPlace ==
    /\ call.op = "none"
    /\ \E lead \in LeadInputs :
          LET matches == findMatches(lead, buyers, marketNameOf(lead)) IN
          /\ call' = [op |-> "findMatches", lead |-> lead]
          /\ ret' = matches
          /\ buyers' = [i \in 1..Len(matches) |->
                           buyers[CHOOSE k \in 1..Len(buyers) :
                                      buyers[k].id = matches[i].id]]
    /\ UNCHANGED <<assignVars, dealVars, importVars>>

CallFindMatches ==
    /\ call.op = "none"
    /\ \E lead \in LeadInputs :
          /\ call' = [op |-> "findMatches", lead |-> lead]
          /\ ret' = findMatches(lead, buyers, marketNameOf(lead))
    /\ UNCHANGED <<buyers, assignVars, dealVars, importVars>>

\* LeadsContextV2.getRecommendedBuyersForLead(lead, limit = 5)
GetRecommendedBuyersForLead ==
    /\ call.op = "none"
    /\ \E lead \in LeadInputs, limit \in LimitInputs :
          /\ call' = [op |-> "getTopMatches", lead |-> lead, limit |-> limit]
          /\ ret' = getTopMatches(lead, buyers, marketNameOf(lead), limit)
    /\ UNCHANGED <<buyers, assignVars, dealVars, importVars>>

\* LeadsContextV2.getMatchStatsForLead(lead)
GetMatchStatsForLead ==
    /\ call.op = "none"
    /\ \E lead \in LeadInputs :
          /\ call' = [op |-> "getMatchStats", lead |-> lead]
          /\ ret' = getMatchStats(lead, buyers, marketNameOf(lead))
    /\ UNCHANGED <<buyers, assignVars, dealVars, importVars>>

NextRank ==
    \/ FetchBuyers
    \/ CallFindMatches
    \/ GetRecommendedBuyersForLead
    \/ GetMatchStatsForLead

\* the provider is mounted, nothing fetched yet
InitRank == InitMatcher /\ InitAssign

SpecRank == InitRank /\ [][NextRank]_vars

IsRanking == call.op \in {"findMatches", "getTopMatches"}

\* C1: every list the ranker returns has tiers in non-decreasing order, and
\* adjacent results of equal tier have non-increasing match_score.
C1_RankOrder ==
    IsRanking =>
        \A i \in 1..(Len(ret) - 1) :
            /\ ret[i].tier <= ret[i + 1].tier
            /\ ret[i].tier = ret[i + 1].tier =>
                  ret[i].match_score >= ret[i + 1].match_score

\* three results: a tier change and, inside one tier, a strict score drop
C1_Witness ==
    /\ IsRanking /\ Len(ret) = 3
    /\ ret[1].tier = ret[2].tier /\ ret[1].match_score > ret[2].match_score
    /\ ret[2].tier < ret[3].tier
    /\ ret[1].id > ret[2].id

EligibleIds(bs, marketName) ==
    {bs[i].id : i \in {j \in 1..Len(bs) : servesMarket(bs[j], marketName)}}

\* C2: the untruncated ranking holds exactly the input buyers the Market
\* Matcher accepts for the lead's market, each exactly once.
C2_ExactlyEligible ==
    call.op = "findMatches" =>
        LET ids == EligibleIds(buyers, marketNameOf(call.lead)) IN
        /\ {ret[i].id : i \in 1..Len(ret)} = ids
        /\ Len(ret) = Cardinality(ids)

\* some buyers are kept and some are dropped
C2_Witness ==
    /\ call.op = "findMatches"
    /\ Len(ret) = 2 /\ Len(buyers) = 3
    /\ ret[1].id # ret[2].id

\* C3: every MatchResult the ranker returns carries market_match, and it is
\* true.
C3_MarketMatchField ==
    IsRanking =>
        \A i \in 1..Len(ret) :
            "market_match" \in DOMAIN ret[i] /\ ret[i].market_match = TRUE

\* C4: with a limit the ranker returns exactly the first min(limit, n)
\* elements of the full ranking of the n eligible buyers, in the same order,
\* and never more than limit elements.
C4_Truncation ==
    call.op = "getTopMatches" =>
        /\ Len(ret) <= call.limit
        /\ ret = SubSeq(findMatches(call.lead, buyers, marketNameOf(call.lead)),
                        1,
                        Min(call.limit,
                            Cardinality(EligibleIds(buyers,
                                                    marketNameOf(call.lead)))))

\* a limit that cuts the ranking short
C4_Witness ==
    /\ call.op = "getTopMatches"
    /\ call.limit = 2 /\ Len(ret) = 2
    /\ Cardinality(EligibleIds(buyers, marketNameOf(call.lead))) = 3

NoMarketMatch ==
    /\ call.op \in {"findMatches", "getTopMatches", "getMatchStats"}
    /\ \A i \in 1..Len(buyers) :
          LET target == Prop(buyers[i], "target_markets")
              market == marketNameOf(call.lead)
          IN  /\ target # undefined /\ target # <<>>
              /\ market # undefined /\ market # <<>>
              /\ ~ContainsCI(target, market) /\ ~ContainsCI(target, MULTI)

\* C5: when no buyer's market matches the lead's market the ranker returns
\* the empty list, and the statistics report no match: total and the three
\* tier counts are 0, top_match and top_match_score are absent.
C5_NoMatch ==
    NoMarketMatch =>
        /\ IsRanking => ret = <<>>
        /\ call.op = "getMatchStats" =>
              /\ ret.total_matches = 0
              /\ ret.tier1_count = 0 /\ ret.tier2_count = 0
              /\ ret.tier3_count = 0
              /\ "top_match" \notin DOMAIN ret
              /\ "top_match_score" \notin DOMAIN ret

\* statistics for a Denver lead over a non-empty collection
C5_Witness ==
    /\ NoMarketMatch /\ call.op = "getMatchStats"
    /\ Len(buyers) >= 2
    /\ ret.total_matches = 0

-----------------------------------------------------------------------------
(* Assignment Recorder: updateLead / assignLeadToBuyer of LeadsContext and *)
(* assignLeadToBuyer / fetchLeads of LeadsContextV2 (part_015).  A row's   *)
(* NULL column is a field missing from its DOMAIN.  Each await splits the  *)
(* handler: the request is issued, the store answers, the handler resumes. *)

LeadIds == 1..NumLeads
BuyerIds == 1..NumBuyers

\* a freshly inserted lead: column defaults of 001_create_leads_table.sql
NewLeadRow(id) ==
    [id |-> id, lead_status |-> "new", deal_status |-> "unassigned",
     updated_at |-> 0]

\* { ...l, ...updates }
merge(l, updates) == updates @@ l

\* the patch LeadsContext.assignLeadToBuyer hands to updateLead; updateLead
\* adds updated_at to what it sends to the store
assignUpdates(buyerId, date) ==
    [assigned_buyer_id |-> buyerId, assignment_date |-> date,
     deal_status |-> "assigned"]

\* the patch LeadsContextV2.assignLeadToBuyer sends: buyerId is not in it
assignUpdatesV2(buyerId) == [status |-> "assigned"]

\* the columns LeadsContextV2.fetchLeads selects
V2Columns == {"id", "status", "updated_at"}

projectV2(row) == [f \in DOMAIN row \cap V2Columns |-> row[f]]

\* rows as LeadsContext.fetchLeads returns them: created_at descending
fetchedRows ==
    [i \in 1..NumLeads |-> dbLeads[NumLeads + 1 - i]]

fetchedRowsV2 == [i \in 1..NumLeads |-> projectV2(dbLeads[i])]

Idle ==
    /\ \A i \in 1..Len(calls) : calls[i].pc = "done"
    /\ \A j \in 1..Len(dealCalls) : dealCalls[j].pc = "done"

\* calls made so far, of either operation
CallCount == Len(calls) + Len(dealCalls)

InitStore ==
    /\ InitMatcher
    /\ dbLeads = [id \in LeadIds |-> NewLeadRow(id)]
    /\ leads = <<>> /\ calls = <<>> /\ now = 0
    /\ provider \in {"LeadsContext", "LeadsContextV2"}
    /\ error = "" /\ loading = FALSE
    /\ deals = <<>> /\ dealCalls = <<>>
    /\ imports = <<>> /\ importPage = NoImportPage
    /\ dashboard = EmptyDashboard

\* fetchLeads() of the mounted provider, answered by the store
FetchLeads ==
    /\ Idle
    /\ leads' = IF provider = "LeadsContext" THEN fetchedRows ELSE fetchedRowsV2
    /\ error' = IF provider = "LeadsContext" THEN "" ELSE error
    /\ UNCHANGED <<matcherVars, dealVars, importVars, dbLeads, calls, now, provider, loading>>

\* LeadsContext.assignLeadToBuyer up to the await in updateLead: the dates
\* are read, the update request leaves, `leads` is the closure's copy
AssignLeadToBuyer ==
    /\ provider = "LeadsContext" /\ Idle /\ CallCount < MaxCalls
    /\ \E leadId \in 1..(NumLeads + 1), buyerId \in BuyerIds :
          /\ now' = now + 1
          /\ calls' = Append(calls,
                [leadId |-> leadId, buyerId |-> buyerId, pc |-> "update",
                 date |-> now',
                 updates |-> assignUpdates(buyerId, now')
                             @@ [updated_at |-> now'],
                 snapshot |-> leads, outcome |-> "pending"])
    /\ UNCHANGED <<matcherVars, dealVars, importVars, dbLeads, leads, provider, error, loading>>

\* LeadsContextV2.assignLeadToBuyer up to its first await
AssignLeadToBuyerV2 ==
    /\ provider = "LeadsContextV2" /\ Idle /\ CallCount < MaxCalls
    /\ \E leadId \in 1..(NumLeads + 1), buyerId \in BuyerIds :
          /\ now' = now + 1
          /\ calls' = Append(calls,
                [leadId |-> leadId, buyerId |-> buyerId, pc |-> "update",
                 date |-> now',
                 updates |-> assignUpdatesV2(buyerId),
                 snapshot |-> leads, outcome |-> "pending"])
    /\ UNCHANGED <<matcherVars, dealVars, importVars, dbLeads, leads, provider, error, loading>>

\* the store applies .update(updates).eq('id', leadId); no row, no change
StoreUpdateApplied ==
    \E i \in 1..Len(calls) :
        /\ calls[i].pc = "update"
        /\ dbLeads' = [id \in DOMAIN dbLeads |->
                          IF id = calls[i].leadId
                          THEN merge(dbLeads[id], calls[i].updates)
                          ELSE dbLeads[id]]
        /\ calls' = [calls EXCEPT ![i].pc = "applied"]
        /\ UNCHANGED <<matcherVars, dealVars, importVars, leads, now, provider, error, loading>>

\* the store rejects the update and answers with an error
StoreUpdateRejected ==
    \E i \in 1..Len(calls) :
        /\ calls[i].pc = "update"
        /\ calls' = [calls EXCEPT ![i].pc = "rejected"]
        /\ UNCHANGED <<matcherVars, dealVars, importVars, dbLeads, leads, now, provider, error,
                       loading>>

\* updateLead without `if (err) throw err`: the store's error is ignored
UpdateLeadResume_IgnoresError ==
    \E i \in 1..Len(calls) :
        /\ provider = "LeadsContext"
        /\ calls[i].pc \in {"applied", "rejected"}
        /\ leads' = [k \in 1..Len(calls[i].snapshot) |->
                        IF calls[i].snapshot[k].id = calls[i].leadId
                        THEN merge(calls[i].snapshot[k],
                                   assignUpdates(calls[i].buyerId,
                                                 calls[i].date))
                        ELSE calls[i].snapshot[k]]
        /\ calls' = [calls EXCEPT ![i].pc = "done", ![i].outcome = "success"]
        /\ UNCHANGED <<matcherVars, dealVars, importVars, dbLeads, now, provider, error,
                       loading>>

\* LeadsContext.updateLead after the await, and the rest of
\* assignLeadToBuyer: setLeads over the closure's `leads`, or setError and
\* rethrow
UpdateLeadResume ==
    \E i \in 1..Len(calls) :
        /\ provider = "LeadsContext"
        /\ calls[i].pc \in {"applied", "rejected"}
        /\ IF calls[i].pc = "applied"
           THEN /\ leads' = [k \in 1..Len(calls[i].snapshot) |->
                               IF calls[i].snapshot[k].id = calls[i].leadId
                               THEN merge(calls[i].snapshot[k],
                                          assignUpdates(calls[i].buyerId,
                                                        calls[i].date))
                               ELSE calls[i].snapshot[k]]
                /\ calls' = [calls EXCEPT ![i].pc = "done",
                                          ![i].outcome = "success"]
                /\ UNCHANGED error
           ELSE /\ error' = "update rejected"
                /\ calls' = [calls EXCEPT ![i].pc = "done",
                                          ![i].outcome = "failed"]
                /\ UNCHANGED leads
        /\ UNCHANGED <<matcherVars, dealVars, importVars, dbLeads, now, provider, loading>>

\* LeadsContextV2.assignLeadToBuyer after the await: throw on an error,
\* otherwise enter fetchLeads (setLoading(true), select issued)
AssignResumeV2 ==
    \E i \in 1..Len(calls) :
        /\ provider = "LeadsContextV2"
        /\ calls[i].pc \in {"applied", "rejected"}
        /\ IF calls[i].pc = "applied"
           THEN /\ loading' = TRUE
                /\ calls' = [calls EXCEPT ![i].pc = "fetch"]
           ELSE /\ calls' = [calls EXCEPT ![i].pc = "done",
                                          ![i].outcome = "failed"]
                /\ UNCHANGED loading
        /\ UNCHANGED <<matcherVars, dealVars, importVars, dbLeads, leads, now, provider, error>>

\* LeadsContextV2.fetchLeads after its await: setLeads on data, setError on
\* an error (swallowed), setLoading(false); assignLeadToBuyer then returns
FetchLeadsResumeV2 ==
    \E i \in 1..Len(calls), ok \in BOOLEAN :
        /\ calls[i].pc = "fetch"
        /\ IF ok THEN leads' = fetchedRowsV2 /\ UNCHANGED error
                 ELSE error' = "select failed" /\ UNCHANGED leads
        /\ loading' = FALSE
        /\ calls' = [calls EXCEPT ![i].pc = "done", ![i].outcome = "success"]
        /\ UNCHANGED <<matcherVars, dealVars, importVars, dbLeads, now, provider>>

-----------------------------------------------------------------------------
(* createDeal (App.tsx): one insert into table `deals`, awaited.  Nothing  *)
(* in LeadsContext or LeadsContextV2 calls it; it is an operation of its   *)
(* own that a caller invokes with the lead and buyer it chooses.           *)

\* the largest power of two that is at most n, n >= 1
RECURSIVE Pow2Floor(_)
Pow2Floor(n) == IF n < 2 THEN 1 ELSE 2 * Pow2Floor(n \div 2)

\* Math.floor(estimatedArv * 0.7) for an integer estimatedArv >= 0 in IEEE
\* double arithmetic: 0.7 is stored slightly below 7/10, so where 7x/10 is
\* an integer the product rounds back up to it only if 2x/5 does not
\* exceed the power of two below it
offerPrice(estimatedArv) ==
    LET n == (7 * estimatedArv) \div 10 IN
    IF /\ estimatedArv > 0 /\ estimatedArv % 10 = 0
       /\ 2 * estimatedArv > 5 * Pow2Floor(n)
    THEN n - 1 ELSE n

\* the object createDeal hands to .insert()
dealRecord(leadId, buyerId, ownerName, marketName, estimatedArv, date) ==
    [lead_id |-> leadId, buyer_id |-> buyerId,
     property_address |-> ownerName, market |-> marketName,
     list_price |-> estimatedArv, offer_price |-> offerPrice(estimatedArv),
     status |-> "assigned", assigned_date |-> date]

OwnerNames == {"Pat Owner"}
MarketNames == {"Birmingham, AL"}
ArvPool == {90, 100}

\* createDeal up to its await: the record is built, the insert leaves
CreateDeal ==
    /\ Idle /\ CallCount < MaxCalls
    /\ \E leadId \in LeadIds, buyerId \in BuyerIds,
          ownerName \in OwnerNames, marketName \in MarketNames,
          estimatedArv \in ArvPool :
          /\ now' = now + 1
          /\ dealCalls' = Append(dealCalls,
                [leadId |-> leadId, buyerId |-> buyerId, pc |-> "insert",
                 record |-> dealRecord(leadId, buyerId, ownerName,
                                       marketName, estimatedArv, now'),
                 outcome |-> "pending", result |-> <<>>])
    /\ UNCHANGED <<matcherVars, importVars, dbLeads, leads, calls, provider,
                   error, loading, deals>>

\* the store inserts the row, gives it the next id, and .select() answers
\* with the inserted rows
StoreInsertApplied ==
    \E j \in 1..Len(dealCalls) :
        /\ dealCalls[j].pc = "insert"
        /\ LET row == [id |-> Len(deals) + 1] @@ dealCalls[j].record IN
           /\ deals' = Append(deals, row)
           /\ dealCalls' = [dealCalls EXCEPT ![j].pc = "inserted",
                                             ![j].result = <<row>>]
        /\ UNCHANGED <<matcherVars, importVars, assignVars>>

\* the store rejects the insert and answers with an error
StoreInsertRejected ==
    \E j \in 1..Len(dealCalls) :
        /\ dealCalls[j].pc = "insert"
        /\ dealCalls' = [dealCalls EXCEPT ![j].pc = "rejected"]
        /\ UNCHANGED <<matcherVars, importVars, assignVars, deals>>

\* createDeal that undoes the lead's assignment when the insert failed
CreateDealResume_RollsBack ==
    \E j \in 1..Len(dealCalls) :
        /\ dealCalls[j].pc \in {"inserted", "rejected"}
        /\ dealCalls' = [dealCalls EXCEPT
                            ![j].pc = "done",
                            ![j].outcome = IF dealCalls[j].pc = "inserted"
                                           THEN "returned" ELSE "thrown"]
        /\ dbLeads' = IF dealCalls[j].pc = "rejected"
                      THEN [dbLeads EXCEPT ![dealCalls[j].leadId] =
                                NewLeadRow(dealCalls[j].leadId)]
                      ELSE dbLeads
        /\ UNCHANGED <<matcherVars, importVars, leads, calls, now, provider,
                       error, loading, deals>>

\* createDeal after the await: throw the error, or return data?.[0] || null
CreateDealResume ==
    \E j \in 1..Len(dealCalls) :
        /\ dealCalls[j].pc \in {"inserted", "rejected"}
        /\ dealCalls' = [dealCalls EXCEPT
                            ![j].pc = "done",
                            ![j].outcome = IF dealCalls[j].pc = "inserted"
                                           THEN "returned" ELSE "thrown"]
        /\ UNCHANGED <<matcherVars, importVars, assignVars, deals>>

NextAssign ==
    \/ FetchLeads
    \/ AssignLeadToBuyer
    \/ AssignLeadToBuyerV2
    \/ StoreUpdateApplied
    \/ StoreUpdateRejected
    \/ UpdateLeadResume
    \/ AssignResumeV2
    \/ FetchLeadsResumeV2
    \/ CreateDeal
    \/ StoreInsertApplied
    \/ StoreInsertRejected
    \/ CreateDealResume

\* requests are issued one after another, each awaited by its caller
SpecAssign == InitStore /\ [][NextAssign]_vars

\* the call that returned last
LastCall == calls[Len(calls)]

Column(row, f) == IF f \in DOMAIN row THEN <<row[f]>> ELSE <<>>

\* C10: after a successful assignLeadToBuyer(leadId, buyerId) the stored
\* lead has assigned buyer = buyerId, an assignment timestamp set by that
\* call, and its stage/status advanced to "assigned".
C10_AssignmentStored ==
    (/\ calls # <<>> /\ LastCall.pc = "done" /\ LastCall.outcome = "success"
     /\ LastCall.leadId \in DOMAIN dbLeads) =>
        LET row == dbLeads[LastCall.leadId] IN
        /\ Column(row, "assigned_buyer_id") = <<LastCall.buyerId>>
        /\ Column(row, "assignment_date") = <<LastCall.date>>
        /\ \/ Column(row, "deal_status") = <<"assigned">>
           \/ Column(row, "status") = <<"assigned">>

-----------------------------------------------------------------------------
(* Assignment and deals: C11 - C16 *)

\* the assignLeadToBuyer calls for a lead that returned successfully
SuccessfulCalls(leadId) ==
    {i \in 1..Len(calls) : /\ calls[i].leadId = leadId
                           /\ calls[i].pc = "done"
                           /\ calls[i].outcome = "success"}

Max(S) == CHOOSE m \in S : \A k \in S : k <= m

\* the deals that reference a lead and a buyer
DealsOf(ds, leadId, buyerId) ==
    {d \in 1..Len(ds) : ds[d].lead_id = leadId /\ ds[d].buyer_id = buyerId}

\* C11: once every call has returned, a lead for which assignLeadToBuyer
\* succeeded carries one assigned buyer: the buyer of the last successful
\* call for that lead (assigned to A, then to B, leaves B alone).
C11_LastAssignmentWins ==
    Idle => \A leadId \in DOMAIN dbLeads :
                SuccessfulCalls(leadId) # {} =>
                    Column(dbLeads[leadId], "assigned_buyer_id")
                        = <<calls[Max(SuccessfulCalls(leadId))].buyerId>>

\* C12: when assignLeadToBuyer(lead, buyer) returns successfully, exactly
\* one Deal created since the call began references that lead and buyer,
\* and its status is "assigned".
C12_DealPerAssignment ==
    [][\A i \in 1..Len(calls) :
          (/\ calls[i].pc # "done" /\ calls'[i].pc = "done"
           /\ calls'[i].outcome = "success") =>
              LET made == {d \in DealsOf(deals', calls[i].leadId,
                                         calls[i].buyerId) :
                              deals'[d].assigned_date >= calls[i].date}
              IN /\ Cardinality(made) = 1
                 /\ \A d \in made : deals'[d].status = "assigned"]_vars

\* C13: at most one Deal exists for any pair of lead and buyer.
C13_OneDealPerPair ==
    \A d1, d2 \in 1..Len(deals) :
        (/\ deals[d1].lead_id = deals[d2].lead_id
         /\ deals[d1].buyer_id = deals[d2].buyer_id) => d1 = d2

\* C14: the lead of every Deal has an assigned buyer, and it is the Deal's
\* buyer.
C14_DealMatchesLead ==
    \A d \in 1..Len(deals) :
        /\ deals[d].lead_id \in DOMAIN dbLeads
        /\ Column(dbLeads[deals[d].lead_id], "assigned_buyer_id")
               = <<deals[d].buyer_id>>

\* C15: when the store rejects the lead update of assignLeadToBuyer, the
\* call ends in failure, and neither the rejection nor the rest of the
\* call changes table `deals`, table `leads` or the local list `leads`.
C15_RejectedUpdate ==
    [][\A i \in 1..Len(calls) :
          /\ (calls[i].pc = "update" /\ calls'[i].pc = "rejected") =>
                 /\ dbLeads' = dbLeads /\ deals' = deals /\ leads' = leads
          /\ (calls[i].pc = "rejected" /\ calls'[i] # calls[i]) =>
                 /\ calls'[i].pc = "done" /\ calls'[i].outcome = "failed"
                 /\ dbLeads' = dbLeads /\ deals' = deals /\ leads' = leads
      ]_vars

\* a rejected assignment of a stored lead has returned; the local list is
\* loaded and the stored lead is still unassigned
C15_Witness ==
    \E i \in 1..Len(calls) :
        /\ calls[i].pc = "done" /\ calls[i].outcome = "failed"
        /\ calls[i].leadId \in DOMAIN dbLeads
        /\ leads # <<>> /\ deals = <<>>
        /\ dbLeads[calls[i].leadId] = NewLeadRow(calls[i].leadId)

-----------------------------------------------------------------------------
(* Duplicate-safe importer: ImportLeadsPage.importLeads (part_008) and     *)
(* UnifiedDashboard.importFromCSV (part_009) over convertToAppLead         *)
(* (csvImporter.ts).  In this part table `leads` is the sequence of its    *)
(* rows in insertion order.  A value that is null is the empty sequence,   *)
(* a value that is present a one-element sequence.                         *)

MaxBatch == 2           \* candidates per batch
MaxRuns == 2            \* import runs per behaviour

\* String.prototype.trim over blanks
RECURSIVE trimStart(_)
trimStart(t) ==
    IF t # <<>> /\ Head(t) = " " THEN trimStart(Tail(t)) ELSE t

RECURSIVE trimEnd(_)
trimEnd(t) ==
    IF t # <<>> /\ t[Len(t)] = " "
    THEN trimEnd(SubSeq(t, 1, Len(t) - 1)) ELSE t

trim(t) == trimEnd(trimStart(t))

isRealPhone(phone) ==
    IF Falsy(phone) \/ trim(phone) = <<>> THEN FALSE
    ELSE IF includes(phone, <<"5", "5", "5">>) THEN FALSE
    ELSE TRUE

\* processed.market_value || processed.assessed_value
orElse(a, b) == IF a # 0 THEN a ELSE b

convertToAppLead(processed) ==
    [owner_name |-> processed.owner_name,
     owner_phone |-> IF isRealPhone(processed.owner_phone)
                     THEN <<processed.owner_phone>> ELSE <<>>,
     property_address |-> processed.address,
     assessed_value |-> processed.assessed_value,
     market_value |-> processed.market_value,
     estimated_arv |-> orElse(processed.market_value,
                              processed.assessed_value),
     priority |-> processed.priority,
     status |-> "new"]

\* an element of the API's list that is null: convertToAppLead throws on it
NullLead == [isNull |-> TRUE]

ProcessedPool ==
    {[address |-> "1 Elm St", owner_name |-> "Ann",
      owner_phone |-> <<"5", "5", "5", "1">>,
      assessed_value |-> 90, market_value |-> 0, priority |-> 1],
     [address |-> "1 Elm St", owner_name |-> "Bob",
      owner_phone |-> <<" ">>,
      assessed_value |-> 80, market_value |-> 100, priority |-> 2],
     [address |-> "2 Oak Ave", owner_name |-> "Cy",
      owner_phone |-> <<"2", "0", "5", "3">>,
      assessed_value |-> 70, market_value |-> 100, priority |-> 1]}

\* the lists fetchProcessedLeads can return
Batches == SeqsUpTo(ProcessedPool \cup {NullLead}, MaxBatch)

\* the rows of table `leads` with an address
rowsAt(address) ==
    {k \in 1..Len(dbLeads) : dbLeads[k].property_address = address}

\* what .select('id').eq('property_address', a).single() resolves to when
\* the store answers: the row if there is exactly one, otherwise null data
\* and an error
single(address) ==
    IF Cardinality(rowsAt(address)) = 1
    THEN <<[id |-> dbLeads[CHOOSE k \in rowsAt(address) : TRUE].id]>>
    ELSE <<>>

ImportIdle == \A i \in 1..Len(imports) : imports[i].pc = "done"

NewRun(handler, batch) ==
    [handler |-> handler, pc |-> "start", batch |-> batch, pos |-> 1,
     appLead |-> <<>>, existing |-> <<>>, lookup |-> "",
     successCount |-> 0, errorCount |-> 0, imported |-> 0]

\* the loop from candidate pos up to its next await: importLeads counts a
\* candidate whose conversion throws and goes on, importFromCSV has no
\* try inside the loop and leaves it
RECURSIVE nextLookup(_, _)
nextLookup(r, pos) ==
    IF pos > Len(r.batch)
    THEN [r EXCEPT !.pos = pos, !.pc = "finish"]
    ELSE IF r.batch[pos] = NullLead
    THEN IF r.handler = "importLeads"
         THEN nextLookup([r EXCEPT !.errorCount = @ + 1], pos + 1)
         ELSE [r EXCEPT !.pos = pos, !.pc = "thrown"]
    ELSE [r EXCEPT !.pos = pos, !.pc = "lookup", !.lookup = "",
                   !.appLead = <<convertToAppLead(r.batch[pos])>>,
                   !.existing = <<>>]

\* a run that has returned: what it read is gone, its position and counts
\* are what it ended with
Returned(r) ==
    [NewRun(r.handler, <<>>) EXCEPT !.pc = "done", !.pos = r.pos,
                                    !.successCount = r.successCount,
                                    !.errorCount = r.errorCount,
                                    !.imported = r.imported]

\* run i goes on as r from the page state given: the next lookup leaves,
\* or the loop is over (setResult; alert and loadFromSupabase), or
\* importFromCSV caught an exception (alert); finally setImporting(false)
Continue(seq, i, r, page, dash) ==
    CASE r.pc = "lookup" ->
            /\ imports' = [seq EXCEPT ![i] = r]
            /\ importPage' = page /\ dashboard' = dash
      [] r.pc = "finish" /\ r.handler = "importLeads" ->
            /\ imports' = [seq EXCEPT ![i] = Returned(r)]
            /\ importPage' =
                  [page EXCEPT !.result = <<[success |-> r.successCount,
                                             errors |-> r.errorCount]>>,
                               !.importing = FALSE]
            /\ dashboard' = dash
      [] r.pc = "finish" /\ r.handler = "importFromCSV" ->
            /\ imports' = [seq EXCEPT ![i] = [r EXCEPT !.pc = "load"]]
            /\ dashboard' =
                  [dash EXCEPT !.alerts = Append(@, <<"Imported", r.imported>>),
                               !.loading = TRUE]
            /\ importPage' = page
      [] r.pc = "thrown" ->
            /\ imports' = [seq EXCEPT ![i] = Returned(r)]
            /\ dashboard' =
                  [dash EXCEPT !.alerts = Append(@, <<"Import failed", 0>>),
                               !.importing = FALSE]
            /\ importPage' = page

storedRow(id, appLead) == [id |-> id] @@ appLead

\* .order('priority', { ascending: true }); rows of equal priority are
\* taken in insertion order
insertByPriority(sorted, x) ==
    LET p == Cardinality({k \in 1..Len(sorted) :
                             sorted[k].priority <= x.priority})
    IN SubSeq(sorted, 1, p) \o <<x>> \o SubSeq(sorted, p + 1, Len(sorted))

RECURSIVE orderByPriority(_)
orderByPriority(rows) ==
    IF rows = <<>> THEN <<>>
    ELSE insertByPriority(orderByPriority(SubSeq(rows, 1, Len(rows) - 1)),
                          rows[Len(rows)])

\* table `leads` before the first import: no address twice
InitialTables ==
    {<<>>,
     <<storedRow(1, convertToAppLead(
                       CHOOSE c \in ProcessedPool : c.owner_name = "Ann"))>>}

InitImport ==
    /\ InitMatcher
    /\ dbLeads \in InitialTables
    /\ leads = <<>> /\ calls = <<>> /\ now = 0
    /\ provider = "LeadsContextV2" /\ error = "" /\ loading = FALSE
    /\ deals = <<>> /\ dealCalls = <<>>
    /\ imports = <<>> /\ importPage = NoImportPage
    /\ dashboard = [EmptyDashboard EXCEPT !.leads = dbLeads]

\* ImportLeadsPage.loadLeads: the list fetchProcessedLeads returns becomes
\* the page's `leads`
LoadLeads ==
    /\ ImportIdle
    /\ \E b \in Batches :
          importPage' = [importPage EXCEPT !.leads = b, !.error = <<>>]
    /\ UNCHANGED <<matcherVars, assignVars, dealVars, imports, dashboard>>

\* ImportLeadsPage.importLeads up to its first await
ImportLeads ==
    /\ ImportIdle
    /\ IF Len(importPage.leads) = 0
       THEN /\ importPage' =
                  [importPage EXCEPT !.error = <<"No leads to import">>]
            /\ UNCHANGED <<imports, dashboard>>
       ELSE /\ Len(imports) < MaxRuns
            /\ LET r == NewRun("importLeads", importPage.leads) IN
               Continue(Append(imports, r), Len(imports) + 1,
                        nextLookup(r, 1),
                        [importPage EXCEPT !.importing = TRUE,
                                           !.error = <<>>],
                        dashboard)
    /\ UNCHANGED <<matcherVars, assignVars, dealVars>>

\* UnifiedDashboard.importFromCSV up to `await fetchProcessedLeads()`
ImportFromCSV ==
    /\ ImportIdle /\ Len(imports) < MaxRuns
    /\ imports' = Append(imports,
                         [NewRun("importFromCSV", <<>>) EXCEPT !.pc = "fetch"])
    /\ dashboard' = [dashboard EXCEPT !.importing = TRUE]
    /\ UNCHANGED <<matcherVars, assignVars, dealVars, importPage>>

\* fetchProcessedLeads resolves; the loop runs to its first await
FetchProcessedLeadsResume ==
    \E i \in 1..Len(imports), b \in Batches :
        /\ imports[i].pc = "fetch"
        /\ Continue(imports, i,
                    nextLookup([imports[i] EXCEPT !.batch = b], 1),
                    importPage, dashboard)
        /\ UNCHANGED <<matcherVars, assignVars, dealVars>>

\* the store answers the existence lookup with .single()'s result, or
\* fails: then too the data is null and an error comes with it
StoreLookup ==
    \E i \in 1..Len(imports), failed \in BOOLEAN :
        /\ imports[i].pc = "lookup"
        /\ LET address == imports[i].appLead[1].property_address
               n == Cardinality(rowsAt(address))
           IN imports' = [imports EXCEPT
                  ![i].pc = "looked",
                  ![i].existing = IF failed THEN <<>> ELSE single(address),
                  ![i].lookup = IF failed THEN "failed"
                                ELSE IF n = 1 THEN "row"
                                ELSE IF n = 0 THEN "none" ELSE "many"]
        /\ UNCHANGED <<matcherVars, assignVars, dealVars, importPage,
                       dashboard>>

\* after the lookup: `if (!existing)` sends the insert, otherwise the
\* candidate is skipped and the loop goes on
LookupResume ==
    \E i \in 1..Len(imports) :
        /\ imports[i].pc = "looked"
        /\ IF imports[i].existing = <<>>
           THEN /\ imports' = [imports EXCEPT ![i].pc = "insert"]
                /\ UNCHANGED <<importPage, dashboard>>
           ELSE Continue(imports, i,
                         nextLookup(imports[i], imports[i].pos + 1),
                         importPage, dashboard)
        /\ UNCHANGED <<matcherVars, assignVars, dealVars>>

\* the store inserts the lead and gives it the next id
StoreLeadInsertApplied ==
    \E i \in 1..Len(imports) :
        /\ imports[i].pc = "insert"
        /\ dbLeads' = Append(dbLeads,
                             storedRow(Len(dbLeads) + 1, imports[i].appLead[1]))
        /\ imports' = [imports EXCEPT ![i].pc = "inserted"]
        /\ UNCHANGED <<matcherVars, dealVars, importPage, dashboard, leads,
                       calls, now, provider, error, loading>>

\* the store rejects the insert and answers with an error
StoreLeadInsertRejected ==
    \E i \in 1..Len(imports) :
        /\ imports[i].pc = "insert"
        /\ imports' = [imports EXCEPT ![i].pc = "insertRejected"]
        /\ UNCHANGED <<matcherVars, assignVars, dealVars, importPage,
                       dashboard>>

\* (mutant: the else is missing, an accepted insert counts as an error too)
InsertResume_CountsBoth ==
    \E i \in 1..Len(imports) :
        /\ imports[i].pc \in {"inserted", "insertRejected"}
        /\ LET ok == imports[i].pc = "inserted"
               r == IF imports[i].handler = "importLeads"
                    THEN IF ok
                         THEN [imports[i] EXCEPT !.successCount = @ + 1,
                                                 !.errorCount = @ + 1]
                         ELSE [imports[i] EXCEPT !.errorCount = @ + 1]
                    ELSE IF ok
                         THEN [imports[i] EXCEPT !.imported = @ + 1]
                         ELSE imports[i]
           IN Continue(imports, i, nextLookup(r, r.pos + 1),
                       importPage, dashboard)
        /\ UNCHANGED <<matcherVars, assignVars, dealVars>>

\* after the insert: importLeads counts a success or an error,
\* importFromCSV counts only `if (!error) imported++`; the loop goes on
InsertResume ==
    \E i \in 1..Len(imports) :
        /\ imports[i].pc \in {"inserted", "insertRejected"}
        /\ LET ok == imports[i].pc = "inserted"
               r == IF imports[i].handler = "importLeads"
                    THEN IF ok
                         THEN [imports[i] EXCEPT !.successCount = @ + 1]
                         ELSE [imports[i] EXCEPT !.errorCount = @ + 1]
                    ELSE IF ok
                         THEN [imports[i] EXCEPT !.imported = @ + 1]
                         ELSE imports[i]
           IN Continue(imports, i, nextLookup(r, r.pos + 1),
                       importPage, dashboard)
        /\ UNCHANGED <<matcherVars, assignVars, dealVars>>

\* loadFromSupabase after its await: setLeads on data, the error only
\* logged; setLoading(false); importFromCSV ends with setImporting(false)
LoadFromSupabaseResume ==
    \E i \in 1..Len(imports), ok \in BOOLEAN :
        /\ imports[i].pc = "load"
        /\ dashboard' = [dashboard EXCEPT
                            !.leads = IF ok THEN orderByPriority(dbLeads)
                                      ELSE @,
                            !.loading = FALSE, !.importing = FALSE]
        /\ imports' = [imports EXCEPT ![i] = Returned(imports[i])]
        /\ UNCHANGED <<matcherVars, assignVars, dealVars, importPage>>

NextImport ==
    \/ LoadLeads
    \/ ImportLeads
    \/ ImportFromCSV
    \/ FetchProcessedLeadsResume
    \/ StoreLookup
    \/ LookupResume
    \/ StoreLeadInsertApplied
    \/ StoreLeadInsertRejected
    \/ InsertResume
    \/ LoadFromSupabaseResume

\* import runs are started one after another
SpecImport == InitImport /\ [][NextImport]_vars

-----------------------------------------------------------------------------
(* Importer: C17 - C20 *)

\* the count of skipped candidates a run keeps, if it keeps one
skippedCount(r) ==
    IF "skippedCount" \in DOMAIN r THEN <<r.skippedCount>> ELSE <<>>

\* the count of inserted leads: successCount in importLeads, imported in
\* importFromCSV
insertedCount(r) ==
    IF r.handler = "importLeads" THEN r.successCount ELSE r.imported

\* candidates after position a and before position b on which the
\* conversion throws
thrownBetween(batch, a, b) ==
    Cardinality({k \in (a + 1)..(b - 1) :
                    k \in DOMAIN batch /\ batch[k] = NullLead})

\* C17: a candidate whose address is in table `leads` is not inserted, the
\* table stays as it is and the skipped count goes up by one; for a
\* candidate with a new address the insert is sent, the row is added with
\* the candidate's data and the inserted count goes up by one.
C17_SkipOrInsert ==
    [][\A i \in 1..Len(imports) :
          LET r == imports[i]
              r2 == imports'[i]
          IN /\ (/\ r.pc = "looked" /\ r2 # r
                 /\ rowsAt(r.appLead[1].property_address) # {}) =>
                    /\ r2.pc # "insert" /\ dbLeads' = dbLeads
                    /\ skippedCount(r) # <<>>
                    /\ skippedCount(r2) = <<skippedCount(r)[1] + 1>>
                    /\ insertedCount(r2) = insertedCount(r)
             /\ (/\ r.pc = "looked" /\ r2 # r
                 /\ rowsAt(r.appLead[1].property_address) = {}) =>
                    r2.pc = "insert"
             /\ (r.pc = "insert" /\ r2.pc = "inserted") =>
                    dbLeads' = Append(dbLeads,
                                      storedRow(Len(dbLeads) + 1,
                                                r.appLead[1]))
             /\ (r.pc = "inserted" /\ r2 # r) =>
                    insertedCount(r2) = insertedCount(r) + 1]_vars

\* C18: no two rows of table `leads` have the same address.
C18_NoDuplicateAddress ==
    \A k1, k2 \in 1..Len(dbLeads) :
        dbLeads[k1].property_address = dbLeads[k2].property_address
            => k1 = k2

\* C19: when the loop moves on from a candidate, the error count has gone
\* up by one if that candidate's insert failed and by one for every
\* candidate passed on which the conversion threw, and by nothing else;
\* a run returns only with the whole batch behind it.
C19_ErrorsCounted ==
    [][\A i \in 1..Len(imports) :
          LET r == imports[i]
              r2 == imports'[i]
          IN (/\ r.pc \in {"looked", "inserted", "insertRejected"}
              /\ r2 # r /\ r2.pc # "insert") =>
                /\ r2.errorCount =
                      r.errorCount
                      + (IF r.pc = "insertRejected" THEN 1 ELSE 0)
                      + thrownBetween(r.batch, r.pos, r2.pos)
                /\ r2.pc = "done" => r2.pos = Len(r.batch) + 1]_vars

\* C20: a candidate whose existence lookup failed is counted as an error
\* and no insert is sent for it.
C20_LookupFailure ==
    [][\A i \in 1..Len(imports) :
          LET r == imports[i]
              r2 == imports'[i]
          IN (r.pc = "looked" /\ r.lookup = "failed" /\ r2 # r) =>
                /\ r2.pc # "insert" /\ dbLeads' = dbLeads
                /\ r2.errorCount >= r.errorCount + 1]_vars

\* ---------------------------------------------------------------------
\* The matcher's test fixture (buyerMatcher.test.ts): ten buyers, eight with
\* target market 'Birmingham, AL' and two with 'Kansas City, MO'

FixtureBuyer(id, target, notes) ==
    [id |-> id, target_markets |-> target, notes |-> notes]

testBuyers ==
    << FixtureBuyer(3, BIRMINGHAM_AL, TIER_1_HOT),
       FixtureBuyer(4, BIRMINGHAM_AL, TIER_1_HOT),
       FixtureBuyer(5, BIRMINGHAM_AL, TIER_1_HOT),
       FixtureBuyer(6, BIRMINGHAM_AL, TIER_1_HOT),
       FixtureBuyer(7, BIRMINGHAM_AL, TIER_2_WARM),
       FixtureBuyer(8, BIRMINGHAM_AL, TIER_1_HOT),
       FixtureBuyer(9, BIRMINGHAM_AL, TIER_2_WARM),
       FixtureBuyer(10, BIRMINGHAM_AL, TIER_2_WARM),
       FixtureBuyer(35, KANSAS_CITY_MO, TIER_2_WARM),
       FixtureBuyer(39, KANSAS_CITY_MO, TIER_1_HOT) >>

\* the fixture and every contiguous part of it
FixtureTables ==
    {SubSeq(testBuyers, a, b) : a \in 1..Len(testBuyers), b \in 1..Len(testBuyers)}

InitFixture ==
    /\ buyers \in FixtureTables \ {<<>>}
    /\ call = NoCall /\ ret = <<>>
    /\ InitAssign

NextFixture ==
    \/ CallFindMatches
    \/ GetRecommendedBuyersForLead
    \/ GetMatchStatsForLead

SpecFixture == InitFixture /\ [][NextFixture]_vars

StatsOnFixture ==
    /\ buyers = testBuyers
    /\ call.op = "getMatchStats"
    /\ marketNameOf(call.lead) = BIRMINGHAM_AL

\* C21: getMatchStats on the fixture of ten buyers with a lead in
\* 'Birmingham, AL' reports total_matches = 8, tier1_count = 4 and
\* tier2_count = 4.
C21_FixtureStats ==
    StatsOnFixture =>
        /\ ret.total_matches = 8
        /\ ret.tier1_count = 4
        /\ ret.tier2_count = 4

\* ---------------------------------------------------------------------
\* Rankings over buyers of one market whose reliability runs over the
\* whole scale, the rows arriving in any order

OrderReliability == {-2, 5, 10, MaxReliability}

OrderRows ==
    {WithReliability(Buyer(0, BIRMINGHAM_AL, n), r) :
        n \in RankNotes, r \in OrderReliability}

\* a select without ORDER BY: the primary keys come in no particular order
\* (here descending)
OrderTables ==
    {[i \in 1..Len(rows) |-> [rows[i] EXCEPT !.id = Len(rows) + 1 - i]] :
        rows \in SeqsUpTo(OrderRows, MaxBuyers)}

InitOrder ==
    /\ buyers \in OrderTables \ {<<>>}
    /\ call = NoCall /\ ret = <<>>
    /\ InitAssign

NextOrder ==
    \/ CallFindMatches
    \/ GetMatchStatsForLead

SpecOrder == InitOrder /\ [][NextOrder]_vars

\* the position of the buyer with this id in the input collection
InputIndex(id) == CHOOSE k \in 1..Len(buyers) : buyers[k].id = id

Tied(a, b) == a.tier = b.tier /\ a.match_score = b.match_score

\* C22: buyers that tie on tier and match_score appear in the ranking in
\* the same relative order as in the input collection.
C22_StableTies ==
    call.op = "findMatches" =>
        \A i \in 1..Len(ret), j \in 1..Len(ret) :
            (i < j /\ Tied(ret[i], ret[j])) =>
                InputIndex(ret[i].id) < InputIndex(ret[j].id)

\* three results: the last two tie although their reliability differs, and
\* the first was the last of the input
C22_Witness ==
    /\ call.op = "findMatches" /\ Len(ret) = 3
    /\ Tied(ret[2], ret[3]) /\ ~Tied(ret[1], ret[2])
    /\ Column(ret[2], "reliability_score") # Column(ret[3], "reliability_score")
    /\ InputIndex(ret[1].id) = 3
    /\ InputIndex(ret[2].id) < InputIndex(ret[3].id)

\* the scores of the buyers the market filter lets through
EligibleScores(lead, bs) ==
    {calculateScore(bs[k], lead, marketNameOf(lead)) :
        k \in {n \in 1..Len(bs) : servesMarket(bs[n], marketNameOf(lead))}}

\* C26: in every list findMatches returns match_score is non-increasing
\* over the whole list, across tiers too, and the top_match_score of
\* getMatchStats is the maximum match_score of that list.
C26_ScoreNonIncreasing ==
    /\ call.op = "findMatches" =>
          \A i \in 1..(Len(ret) - 1) :
              ret[i].match_score >= ret[i + 1].match_score
    /\ (call.op = "getMatchStats" /\ ret.total_matches > 0) =>
          ret.top_match_score = Max(EligibleScores(call.lead, buyers))

\* a tier-1 buyer without reliability ranks before a tier-2 buyer with the
\* highest reliability, level on score; a tier-3 buyer follows
C26_Witness ==
    /\ call.op = "findMatches" /\ Len(ret) = 3
    /\ ret[1].tier = 1 /\ ret[2].tier = 2 /\ ret[3].tier = 3
    /\ "reliability_score" \notin DOMAIN ret[1]
    /\ Column(ret[2], "reliability_score") = <<MaxReliability>>
    /\ ret[1].match_score = ret[2].match_score
    /\ ret[2].match_score > ret[3].match_score

IsMatcherCall ==
    /\ call.op = "none"
    /\ call'.op \in {"findMatches", "getTopMatches", "getMatchStats"}

\* C23: findMatches, getTopMatches and getMatchStats leave their inputs as
\* they were: the buyers collection has the same elements in the same order
\* with the same fields after the call, and nothing is written to the store
\* or to the provider's lists.
C23_InputsUnchanged ==
    [][IsMatcherCall =>
          /\ buyers' = buyers
          /\ dbLeads' = dbLeads /\ deals' = deals /\ leads' = leads]_vars

\* a ranking that reordered its copy: the first result is not the first
\* input buyer, and the input still holds the three buyers without a score
C23_Witness ==
    /\ call.op = "findMatches"
    /\ Len(ret) = 3 /\ Len(buyers) = 3
    /\ ret[1].id = buyers[3].id
    /\ \A k \in 1..3 : buyers[k].id = k /\ "match_score" \notin DOMAIN buyers[k]

\* ---------------------------------------------------------------------
\* The prices createDeal derives: estimatedArv is an optional argument
\* (<<>> when the caller passes none, <<n>> otherwise) with default 0

MaxArv == 100

estimatedArvOrDefault(arg) == IF arg = <<>> THEN 0 ELSE arg[1]

ArvArgs == {<<>>} \cup {<<n>> : n \in 0..MaxArv}

InitOffer ==
    /\ buyers = <<>> /\ ret = <<>>
    /\ \E arg \in ArvArgs : call = [op |-> "none", estimatedArv |-> arg]
    /\ InitAssign

\* the row createDeal hands to insert
CreateDealRecord ==
    /\ call.op = "none"
    /\ call' = [call EXCEPT !.op = "createDeal"]
    /\ ret' = dealRecord(1, 1, "Pat Owner", "Birmingham, AL",
                         estimatedArvOrDefault(call.estimatedArv), now)
    /\ UNCHANGED <<buyers, assignVars, dealVars, importVars>>

NextOffer == CreateDealRecord

SpecOffer == InitOffer /\ [][NextOffer]_vars

\* C24: the created deal has list_price equal to the lead's estimated value
\* (0 when there is none) and offer_price = floor(0.7 * list_price), so
\* 0 <= offer_price <= list_price.
C24_OfferPrice ==
    call.op = "createDeal" =>
        /\ ret.list_price =
              (IF call.estimatedArv = <<>> THEN 0 ELSE call.estimatedArv[1])
        /\ ret.offer_price = (7 * ret.list_price) \div 10
        /\ 0 <= ret.offer_price /\ ret.offer_price <= ret.list_price

\* ---------------------------------------------------------------------
\* Overlapping calls of the leads context: nothing in either provider keeps
\* a caller from starting assignLeadToBuyer while an earlier call awaits the
\* store.  `during` notes the calls that were in flight when a call began.

InFlight == {i \in 1..Len(calls) : calls[i].pc # "done"}

\* LeadsContext.assignLeadToBuyer up to the await in updateLead, begun at
\* any time
AssignLeadToBuyerOverlapping ==
    /\ provider = "LeadsContext" /\ CallCount < MaxCalls
    /\ \E leadId \in LeadIds, buyerId \in BuyerIds :
          /\ now' = now + 1
          /\ calls' = Append(calls,
                [leadId |-> leadId, buyerId |-> buyerId, pc |-> "update",
                 date |-> now',
                 updates |-> assignUpdates(buyerId, now')
                             @@ [updated_at |-> now'],
                 snapshot |-> leads, outcome |-> "pending",
                 during |-> InFlight])
    /\ UNCHANGED <<matcherVars, dealVars, importVars, dbLeads, leads, provider, error, loading>>

\* LeadsContextV2.assignLeadToBuyer up to its first await, begun at any time
AssignLeadToBuyerOverlappingV2 ==
    /\ provider = "LeadsContextV2" /\ CallCount < MaxCalls
    /\ \E leadId \in LeadIds, buyerId \in BuyerIds :
          /\ now' = now + 1
          /\ calls' = Append(calls,
                [leadId |-> leadId, buyerId |-> buyerId, pc |-> "update",
                 date |-> now',
                 updates |-> assignUpdatesV2(buyerId),
                 snapshot |-> leads, outcome |-> "pending",
                 during |-> InFlight])
    /\ UNCHANGED <<matcherVars, dealVars, importVars, dbLeads, leads, provider, error, loading>>

NextOverlap ==
    \/ FetchLeads
    \/ AssignLeadToBuyerOverlapping
    \/ AssignLeadToBuyerOverlappingV2
    \/ StoreUpdateApplied
    \/ StoreUpdateRejected
    \/ UpdateLeadResume
    \/ AssignResumeV2
    \/ FetchLeadsResumeV2

\* the provider is mounted; its first fetchLeads has not answered yet
InitOverlap == InitStore

SpecOverlap == InitOverlap /\ [][NextOverlap]_vars

\* the store has applied call j's update
Applied(j) ==
    \/ calls[j].pc \in {"applied", "fetch"}
    \/ calls[j].pc = "done" /\ calls[j].outcome = "success"

\* calls i and j ran concurrently on one lead with different buyers
Concurrent(i, j) ==
    /\ i # j
    /\ calls[i].leadId = calls[j].leadId
    /\ calls[i].buyerId # calls[j].buyerId
    /\ (j \in calls[i].during \/ i \in calls[j].during)

\* C25: of two concurrent assignLeadToBuyer requests on one lead with
\* buyers A and B, the one the store applies last decides the stored lead:
\* its assigned buyer, assignment timestamp and assigned status all come
\* from that request.
C25_LastAppliedWins ==
    [][\A i \in 1..Len(calls) :
          (/\ calls[i].pc = "update" /\ calls'[i].pc = "applied"
           /\ \E j \in 1..Len(calls) : Concurrent(i, j) /\ Applied(j))
          => LET row == dbLeads'[calls[i].leadId] IN
             /\ Column(row, "assigned_buyer_id") = <<calls[i].buyerId>>
             /\ Column(row, "assignment_date") = <<calls[i].date>>
             /\ Column(row, "deal_status") = <<"assigned">>]_vars

\* both calls ran concurrently and both store writes succeeded
BothSucceeded(i, j) ==
    /\ i # j
    /\ (j \in calls[i].during \/ i \in calls[j].during)
    /\ calls[i].outcome = "success" /\ calls[j].outcome = "success"

\* C30: when two calls of the leads context overlap and both store writes
\* succeed, the local leads list reflects both changes: once both have
\* returned, the local list agrees with the store on every lead's assigned
\* buyer.
C30_LocalAgreesWithStore ==
    (/\ provider = "LeadsContext"
     /\ \E i, j \in 1..Len(calls) : BothSucceeded(i, j)
     /\ InFlight = {})
    => \A k \in 1..Len(leads) :
          Column(leads[k], "assigned_buyer_id")
              = Column(dbLeads[leads[k].id], "assigned_buyer_id")

\* ---------------------------------------------------------------------
\* Overlapping import runs.  Each page disables its own import button while
\* its own run is going (disabled={importing}); the pages do not know of
\* each other, so a run of ImportLeadsPage and a run of UnifiedDashboard can
\* be under way together.  Both read the same list from the API.

\* ImportLeadsPage.importLeads up to its first await, the page's button
\* being enabled
ImportLeadsOverlapping ==
    /\ ~importPage.importing
    /\ Len(importPage.leads) > 0 /\ Len(imports) < MaxRuns
    /\ LET r == NewRun("importLeads", importPage.leads) IN
       Continue(Append(imports, r), Len(imports) + 1, nextLookup(r, 1),
                [importPage EXCEPT !.importing = TRUE, !.error = <<>>],
                dashboard)
    /\ UNCHANGED <<matcherVars, assignVars, dealVars>>

\* UnifiedDashboard.importFromCSV up to `await fetchProcessedLeads()`, the
\* dashboard's button being enabled
ImportFromCSVOverlapping ==
    /\ ~dashboard.importing /\ Len(imports) < MaxRuns
    /\ imports' = Append(imports,
                         [NewRun("importFromCSV", <<>>) EXCEPT !.pc = "fetch"])
    /\ dashboard' = [dashboard EXCEPT !.importing = TRUE]
    /\ UNCHANGED <<matcherVars, assignVars, dealVars, importPage>>

\* fetchProcessedLeads resolves with the list the import page was given
\* too; the loop runs to its first await
FetchSameLeadsResume ==
    \E i \in 1..Len(imports) :
        /\ imports[i].pc = "fetch"
        /\ Continue(imports, i,
                    nextLookup([imports[i] EXCEPT !.batch = importPage.leads], 1),
                    importPage, dashboard)
        /\ UNCHANGED <<matcherVars, assignVars, dealVars>>

NextImportOverlap ==
    \/ ImportLeadsOverlapping
    \/ ImportFromCSVOverlapping
    \/ FetchSameLeadsResume
    \/ StoreLookup
    \/ LookupResume
    \/ StoreLeadInsertApplied
    \/ StoreLeadInsertRejected
    \/ InsertResume
    \/ LoadFromSupabaseResume

\* both pages are open and the import page has loaded the API's list
InitImportOverlap ==
    /\ InitMatcher
    /\ dbLeads \in InitialTables
    /\ leads = <<>> /\ calls = <<>> /\ now = 0
    /\ provider = "LeadsContextV2" /\ error = "" /\ loading = FALSE
    /\ deals = <<>> /\ dealCalls = <<>>
    /\ imports = <<>>
    /\ \E b \in Batches \ {<<>>} :
          importPage = [NoImportPage EXCEPT !.leads = b]
    /\ dashboard = [EmptyDashboard EXCEPT !.leads = dbLeads]

SpecImportOverlap == InitImportOverlap /\ [][NextImportOverlap]_vars

\* the rows of a table with an address
rowsIn(table, address) ==
    {k \in 1..Len(table) : table[k].property_address = address}

\* another run is under way
OtherRunUnderWay(i) ==
    \E j \in 1..Len(imports) : j # i /\ imports[j].pc # "done"

\* C27: of two concurrent import runs over batches that share a new
\* address at most one lead with that address ends up in the store: when a
\* run whose lookup found no lead with the address has its insert applied
\* while the other run is under way, the store holds one lead with that
\* address.
C27_ConcurrentNoDuplicate ==
    [][\A i \in 1..Len(imports) :
          (/\ imports[i].pc = "insert" /\ imports'[i].pc = "inserted"
           /\ imports[i].lookup = "none"
           /\ OtherRunUnderWay(i))
          => Cardinality(rowsIn(dbLeads',
                                imports[i].appLead[1].property_address)) <= 1]_vars

\* ---------------------------------------------------------------------
\* importLeads on its own, over the list the page has loaded.  Every
\* request to the store is answered, with data or with an error, and the
\* handler resumes when its await is answered.

\* the page's first import run (or its refusal of an empty list)
ImportLeadsFirst == imports = <<>> /\ ImportLeads

NextImportLive ==
    \/ ImportLeadsFirst
    \/ StoreLookup
    \/ LookupResume
    \/ StoreLeadInsertApplied
    \/ StoreLeadInsertRejected
    \/ InsertResume

\* the import page has loaded the API's list, which may be empty
InitImportLive ==
    /\ InitMatcher
    /\ dbLeads \in InitialTables
    /\ leads = <<>> /\ calls = <<>> /\ now = 0
    /\ provider = "LeadsContextV2" /\ error = "" /\ loading = FALSE
    /\ deals = <<>> /\ dealCalls = <<>>
    /\ imports = <<>>
    /\ \E b \in Batches : importPage = [NoImportPage EXCEPT !.leads = b]
    /\ dashboard = [EmptyDashboard EXCEPT !.leads = dbLeads]

SpecImportLive ==
    /\ InitImportLive /\ [][NextImportLive]_vars
    /\ WF_vars(StoreLookup)
    /\ WF_vars(LookupResume)
    /\ WF_vars(StoreLeadInsertApplied \/ StoreLeadInsertRejected)
    /\ WF_vars(InsertResume)

\* the run is over and its result is on the page
ResultPublished ==
    /\ ~importPage.importing
    /\ importPage.result # <<>>
    /\ importPage.result[1].success + importPage.result[1].errors
          <= Len(importPage.leads)

\* C28: importLeads terminates for every finite batch whatever fails: once
\* started on a non-empty batch, eventually importing is false and a result
\* with success + errors <= batch size is published; on an empty batch it
\* issues no store call and reports 'No leads to import'.
C28_ImportTerminates ==
    /\ importPage.importing ~> ResultPublished
    /\ [][Len(importPage.leads) = 0 =>
            /\ imports' = <<>> /\ dbLeads' = dbLeads
            /\ ~importPage'.importing
            /\ importPage' # importPage =>
                  importPage'.error = <<"No leads to import">>]_vars

\* a run over two candidates has returned: one insert was accepted and one
\* candidate failed
C28_Witness ==
    /\ Len(imports) = 1 /\ imports[1].pc = "done"
    /\ Len(importPage.leads) = 2
    /\ ~importPage.importing
    /\ importPage.result = <<[success |-> 1, errors |-> 1]>>

\* ---------------------------------------------------------------------
\* The market condition of view available_matches
\* (001_create_leads_table.sql), for texts that are not NULL

\* SPLIT_PART(s, ',', 1): the text before the first comma, all of s if
\* there is none
RECURSIVE splitPartFirst(_)
splitPartFirst(s) ==
    IF s = <<>> \/ Head(s) = "," THEN <<>>
    ELSE <<Head(s)>> \o splitPartFirst(Tail(s))

\* s LIKE p: % matches any run of characters, _ any one character, every
\* other character itself, case-sensitively
RECURSIVE like(_, _)
like(s, p) ==
    IF p = <<>> THEN s = <<>>
    ELSE IF Head(p) = "%"
    THEN \E k \in 0..Len(s) : like(SubSeq(s, k + 1, Len(s)), Tail(p))
    ELSE /\ s # <<>>
         /\ (Head(p) = "_" \/ Head(p) = Head(s))
         /\ like(Tail(s), Tail(p))

\* b.target_markets LIKE CONCAT('%', SPLIT_PART(l.market, ',', 1), '%')
\* OR b.target_markets LIKE '%Multi-Market%'
viewMarketCondition(target_markets, market) ==
    \/ like(target_markets, <<"%">> \o splitPartFirst(market) \o <<"%">>)
    \/ like(target_markets, <<"%">> \o MULTI_MARKET \o <<"%">>)

\* a buyer with a non-empty target-markets text without the multi-market
\* marker, and a lead with a market name
PlainMarketPair ==
    /\ call.op = "servesMarket"
    /\ ~Falsy(Prop(call.buyer, "target_markets"))
    /\ ~includes(toLowerCase(call.buyer.target_markets), MULTI)
    /\ ~Falsy(call.marketName)

\* C29: for a buyer with a non-empty target-markets text without the
\* multi-market marker and a lead with a market name, servesMarket and the
\* market condition of view available_matches accept exactly the same
\* (lead, buyer) pairs.
C29_ViewAgreesWithMatcher ==
    PlainMarketPair =>
        (ret = viewMarketCondition(call.buyer.target_markets, call.marketName))

====
